---- MODULE Spec2Model ----
(***************************************************************************)
(* Model of Settings::get (src/src/settings/mod.rs): the resolution of the *)
(* server settings from the invocation options and an optional TOML config *)
(* file.  The function is modelled as a state machine, one action per step  *)
(* of its body; the invocation options, the file system and the decoded    *)
(* file are the inputs, drawn from bounded sets.                            *)
(*                                                                         *)
(* Conventions.  Option<T>: None is <<>>, Some(v) is <<v>>.                 *)
(* Result<T>: [tag |-> "Ok", v |-> ...] or [tag |-> "Err", context |-> c].  *)
(* An error context built by format!("<text>: {}", x) is the record        *)
(* [msg |-> "<text>", arg |-> <x formatted>].                               *)
(* The model is the non-Windows build: the #[cfg(windows)] items           *)
(* (windows_service, commands) are not compiled.                            *)
(***************************************************************************)
EXTENDS Integers, Sequences, FiniteSets, TLC

VARIABLES
    pc,                 \* position in the body of Settings::get
    opts,               \* General::from_args()                       (line 60)
    locals,             \* the mutable locals host .. redirect_trailing_slash, config_file (63-86)
    settings_advanced,  \* Option<Advanced>                            (line 93)
    path_resolved,      \* Result of p.canonicalize()                  (line 99)
    settings,           \* Result of file::Settings::read              (line 103)
    headers_vec, rewrites_vec, redirects_vec,              \* vectors under construction
    headers_entries, rewrites_entries, redirects_entries,  \* results of the three matches
    i,                  \* position of the running `for` loop
    calls,              \* the fallible external operations called so far
    result              \* the value returned by Settings::get

vars == <<pc, opts, locals, settings_advanced, path_resolved, settings,
          headers_vec, rewrites_vec, redirects_vec,
          headers_entries, rewrites_entries, redirects_entries, i, calls, result>>

\* ------------------------------------------------------------------ values

None == <<>>
Some(v) == <<v>>
IsSome(o) == o /= <<>>
Unwrap(o) == o[1]

Ok(v) == [tag |-> "Ok", v |-> v]
Err(c) == [tag |-> "Err", context |-> c]
Unset == [tag |-> "Unset"]

Context(msg, arg) == [msg |-> msg, arg |-> arg]

\* Bound on the number of rule entries (headers + rewrites + redirects)
\* declared by one config file.
MaxEntries == 3

\* ------------------------------------------------- the general options

\* Fields the file value replaces as it is: `x = v`            (lines 112-180)
PlainFields ==
    {"host", "port", "root", "cache_control_headers", "compression",
     "page404", "page50x", "http2", "security_headers",
     "cors_allow_origins", "cors_allow_headers", "directory_listing",
     "directory_listing_order", "basic_auth", "threads_multiplier",
     "grace_period", "log_remote_address", "redirect_trailing_slash"}

\* Fields that are Option in the invocation options: `x = Some(v)`
\*                                               (lines 139-144, 163-174)
OptionFields == {"http2_tls_cert", "http2_tls_key", "fd", "page_fallback"}

\* The fields the general section of the file is read for      (lines 112-180)
FileFields == PlainFields \cup OptionFields \cup {"log_level"}

\* The fields of cli::General as Settings::get reads and returns them
\*                                                   (lines 63-86, 283-307)
GeneralFields == FileFields \cup {"config_file"}

\* file::LogLevel::name, the textual name of a level of the file
name(level) ==
    CASE level = "Error" -> "ERROR"
      [] level = "Warn"  -> "WARN"
      [] level = "Info"  -> "INFO"
      [] level = "Debug" -> "DEBUG"
      [] level = "Trace" -> "TRACE"

\* str::to_lowercase on the names of the levels
to_lowercase(s) ==
    CASE s = "ERROR" -> "error"
      [] s = "WARN"  -> "warn"
      [] s = "INFO"  -> "info"
      [] s = "DEBUG" -> "debug"
      [] s = "TRACE" -> "trace"
      [] OTHER       -> s

\* Paths an invocation may name as its config file, and what the file system
\* holds there: Path::is_file is true for a regular file only.
PathKind ==
    [p \in {"sws.toml", "missing.toml", "confdir"} |->
        CASE p = "sws.toml"     -> "file"
          [] p = "missing.toml" -> "missing"
          [] p = "confdir"      -> "dir"]

Paths == DOMAIN PathKind

\* Path::exists in place of Path::is_file: true for a directory too.
exists(p) == PathKind[p] /= "missing"

\* Path::is_file                                                  (line 98)
is_file(p) == PathKind[p] = "file"

\* The absolute, symlink-free form Path::canonicalize gives       (line 100)
CanonicalPath(p) ==
    CASE p = "sws.toml" -> "/srv/www/sws.toml"
      [] p = "confdir"  -> "/srv/www/confdir"
      [] OTHER          -> p

\* Two invocations that differ in every field but config_file: the built-in
\* defaults, and one with every option given on the command line.
OptsDefault(cf) ==
    [host |-> "::", port |-> 80, root |-> "./public", log_level |-> "error",
     config_file |-> cf,
     cache_control_headers |-> TRUE, compression |-> TRUE,
     page404 |-> "./public/404.html", page50x |-> "./public/50x.html",
     http2 |-> FALSE, http2_tls_cert |-> None, http2_tls_key |-> None,
     security_headers |-> FALSE, cors_allow_origins |-> "",
     cors_allow_headers |-> "origin, content-type",
     directory_listing |-> FALSE, directory_listing_order |-> 6,
     basic_auth |-> "", fd |-> None, threads_multiplier |-> 1,
     grace_period |-> 0, page_fallback |-> None,
     log_remote_address |-> FALSE, redirect_trailing_slash |-> TRUE]

OptsCli(cf) ==
    [host |-> "127.0.0.1", port |-> 8080, root |-> "/var/www", log_level |-> "debug",
     config_file |-> cf,
     cache_control_headers |-> FALSE, compression |-> FALSE,
     page404 |-> "/var/www/404.html", page50x |-> "/var/www/50x.html",
     http2 |-> TRUE, http2_tls_cert |-> Some("/tls/cli.crt"),
     http2_tls_key |-> Some("/tls/cli.key"),
     security_headers |-> TRUE, cors_allow_origins |-> "*",
     cors_allow_headers |-> "accept",
     directory_listing |-> TRUE, directory_listing_order |-> 0,
     basic_auth |-> "cli:hash", fd |-> Some(3), threads_multiplier |-> 4,
     grace_period |-> 10, page_fallback |-> Some("/var/www/cli.html"),
     log_remote_address |-> TRUE, redirect_trailing_slash |-> FALSE]

Invocations ==
    {OptsDefault(cf) : cf \in {None} \cup {Some(p) : p \in Paths}}
    \cup {OptsCli(cf) : cf \in {None} \cup {Some(p) : p \in Paths}}

\* The values a file may give each field (two per field).
FileValues ==
    [host |-> <<"0.0.0.0", "::">>, port |-> <<9090, 8080>>,
     root |-> <<"/srv/www", "./public">>, log_level |-> <<"Info", "Trace">>,
     cache_control_headers |-> <<FALSE, TRUE>>, compression |-> <<FALSE, TRUE>>,
     page404 |-> <<"/srv/404.html", "/var/www/404.html">>,
     page50x |-> <<"/srv/50x.html", "/var/www/50x.html">>,
     http2 |-> <<TRUE, FALSE>>,
     http2_tls_cert |-> <<"/tls/file.crt", "/tls/cli.crt">>,
     http2_tls_key |-> <<"/tls/file.key", "/tls/cli.key">>,
     security_headers |-> <<TRUE, FALSE>>,
     cors_allow_origins |-> <<"https://a.example", "*">>,
     cors_allow_headers |-> <<"content-type", "accept">>,
     directory_listing |-> <<TRUE, FALSE>>, directory_listing_order |-> <<1, 6>>,
     basic_auth |-> <<"file:hash", "">>, fd |-> <<0, 3>>,
     threads_multiplier |-> <<2, 1>>, grace_period |-> <<5, 0>>,
     page_fallback |-> <<"/srv/index.html", "/var/www/cli.html">>,
     log_remote_address |-> <<TRUE, FALSE>>,
     redirect_trailing_slash |-> <<FALSE, TRUE>>]

\* file::General: every field optional.
GeneralEmpty == [f \in FileFields |-> None]
GeneralOne(f, v) == [g \in FileFields |-> IF g = f THEN Some(v) ELSE None]
GeneralAll(k) == [f \in FileFields |-> Some(FileValues[f][k])]

FileGenerals ==
    {GeneralEmpty}
    \cup {GeneralOne(f, FileValues[f][k]) : f \in FileFields, k \in 1..2}
    \cup {GeneralAll(k) : k \in 1..2}

\* ------------------------------------------------ the advanced section

\* Source patterns of the inputs that globset rejects: an unclosed character
\* class and an unclosed alternation.
BadPatterns == {"[abc", "{a,b"}

\* globset::Glob::new                                  (lines 198, 224, 250)
GlobNew(source) ==
    IF source \in BadPatterns THEN [tag |-> "Err"] ELSE Ok([glob |-> source])

\* Glob::compile_matcher: the matcher of a parsed glob  (lines 205, 231, 257)
compile_matcher(g) == [matcher |-> g.glob]

\* `kind as u16`: the narrowing cast                               (line 259)
U16 == 65536
\* The cast narrowed to 8 bits instead.
AsU8(n) == n % 256
AsU16(n) == n % U16

\* hyper::StatusCode::from_u16 (http crate): a code is legal when
\* 100 <= code < 1000                                              (line 263)
StatusMin == 100
StatusEnd == 1000
StatusCode_from_u16(code) ==
    IF code >= StatusMin /\ code < StatusEnd
    THEN Ok([code |-> code]) ELSE [tag |-> "Err"]

\* The entries a file may declare.
HeaderEntries ==
    {[source |-> "*.html", headers |-> [cache_control |-> "no-cache"]],
     [source |-> "/img/*", headers |-> [cache_control |-> "max-age=3600"]],
     [source |-> "[abc",   headers |-> [cache_control |-> "no-cache"]]}

RewriteEntries ==
    {[source |-> "css/*.css", destination |-> "/assets/app.css"],
     [source |-> "/app/*",    destination |-> "/index.html"],
     [source |-> "{a,b",      destination |-> "/index.html"]}

\* file::Redirects.kind, the declared status code: an integer of the file.
RedirectKinds == {301, 50, 100, 999, 1000, U16 + 301}

RedirectEntries ==
    {[source |-> "/old", destination |-> "/new", kind |-> k] : k \in RedirectKinds}
    \cup {[source |-> "[abc", destination |-> "/new", kind |-> k] : k \in {301, 50}}

\* Option<Vec<T>> values with n entries: absent or empty when n = 0.
OptLists(S, n) ==
    IF n = 0 THEN {None, Some(<<>>)} ELSE {Some(l) : l \in [1..n -> S]}

\* file::Advanced: three optional lists, at most MaxEntries entries in all.
FileAdvanceds ==
    UNION {
      {[headers |-> h, rewrites |-> w, redirects |-> r] :
          h \in OptLists(HeaderEntries, t[1]),
          w \in OptLists(RewriteEntries, t[2]),
          r \in OptLists(RedirectEntries, t[3])} :
      t \in {u \in (0..MaxEntries) \X (0..MaxEntries) \X (0..MaxEntries) :
                u[1] + u[2] + u[3] <= MaxEntries} }

\* file::Settings, the decoded file: an optional general and an optional
\* advanced section.  The general section varies with a fixed small advanced
\* section, and the advanced section with a fixed small general section.
SmallAdvanceds ==
    {None,
     Some([headers |-> Some(<<[source |-> "*.html",
                               headers |-> [cache_control |-> "no-cache"]]>>),
           rewrites |-> None, redirects |-> None])}

SmallGenerals == {None, Some(GeneralOne("port", 9090))}

FileSettings ==
    {[general |-> g, advanced |-> a] :
        g \in {None} \cup {Some(x) : x \in FileGenerals}, a \in SmallAdvanceds}
    \cup {[general |-> g, advanced |-> a] :
        g \in SmallGenerals, a \in {None} \cup {Some(x) : x \in FileAdvanceds}}

\* --------------------------------------------- the steps of Settings::get

\* The value a local takes from the file's value v           (lines 112-180)
Adopt(f, v) ==
    IF f = "log_level" THEN to_lowercase(name(v))
    ELSE IF f \in OptionFields THEN Some(v)
    ELSE v

\* The merge with the `if let` of one field (grace_period) left out.
MergeGeneralWithoutGracePeriod(l, general) ==
    [f \in DOMAIN l |->
        IF f \in FileFields \ {"grace_period"} /\ IsSome(general[f])
        THEN Adopt(f, Unwrap(general[f]))
        ELSE l[f]]

\* `if let Some(general) = settings.general { if let Some(v) = general.F
\* { F = v } ... }`                                          (lines 111-187)
MergeGeneral(l, general) ==
    [f \in DOMAIN l |->
        IF f \in FileFields /\ IsSome(general[f])
        THEN Adopt(f, Unwrap(general[f]))
        ELSE l[f]]

\* One iteration of the headers loop                         (lines 198-210)
CompileHeadersEntry(e) ==
    LET g == GlobNew(e.source) IN
    IF g.tag = "Err"
    THEN Err(Context("can not compile glob pattern for header source", e.source))
    ELSE Ok([source |-> compile_matcher(g.v), headers |-> e.headers])

\* The rewrites iteration with the context text of the headers loop.
CompileRewritesEntryHeaderText(e) ==
    LET g == GlobNew(e.source) IN
    IF g.tag = "Err"
    THEN Err(Context("can not compile glob pattern for header source", e.source))
    ELSE Ok([source |-> compile_matcher(g.v), destination |-> e.destination])

\* One iteration of the rewrites loop                        (lines 224-236)
CompileRewritesEntry(e) ==
    LET g == GlobNew(e.source) IN
    IF g.tag = "Err"
    THEN Err(Context("can not compile glob pattern for rewrite source", e.source))
    ELSE Ok([source |-> compile_matcher(g.v), destination |-> e.destination])

\* The redirects iteration with the status validated before the glob.
CompileRedirectsEntryStatusFirst(e) ==
    LET g == GlobNew(e.source)
        status_code == AsU16(e.kind)
        kind == StatusCode_from_u16(status_code)
    IN  IF kind.tag = "Err"
        THEN Err(Context("invalid redirect status code", ToString(status_code)))
        ELSE IF g.tag = "Err"
        THEN Err(Context("can not compile glob pattern for redirect source", e.source))
        ELSE Ok([source |-> compile_matcher(g.v),
                 destination |-> e.destination,
                 kind |-> kind.v])

\* The redirects iteration with an illegal status replaced by 301 instead of
\* failing (unwrap_or in place of `?`).
CompileRedirectsEntryDefaultStatus(e) ==
    LET g == GlobNew(e.source)
        status_code == AsU16(e.kind)
        kind == StatusCode_from_u16(status_code)
    IN  IF g.tag = "Err"
        THEN Err(Context("can not compile glob pattern for redirect source", e.source))
        ELSE Ok([source |-> compile_matcher(g.v),
                 destination |-> e.destination,
                 kind |-> IF kind.tag = "Err" THEN [code |-> 301] ELSE kind.v])

\* One iteration of the redirects loop: the glob, then the status
\*                                                          (lines 250-266)
CompileRedirectsEntry(e) ==
    LET g == GlobNew(e.source)
        status_code == AsU16(e.kind)
        kind == StatusCode_from_u16(status_code)
    IN  IF g.tag = "Err"
        THEN Err(Context("can not compile glob pattern for redirect source", e.source))
        ELSE IF kind.tag = "Err"
        THEN Err(Context("invalid redirect status code", ToString(status_code)))
        ELSE Ok([source |-> compile_matcher(g.v),
                 destination |-> e.destination,
                 kind |-> kind.v])

\* The result of a match arm with an empty vector turned into None.
SomeVecUnlessEmpty(vec) == IF vec = <<>> THEN None ELSE Some(vec)

\* `Some(headers_vec)`, `Some(rewrites_vec)`, `Some(redirects_vec)`: the
\* result of a match arm whose list is declared      (lines 212, 238, 268)
SomeVec(vec) == Some(vec)

\* The assignment of line 108 left out.
ConfigFileKept(old, resolved) == old

\* `config_file = Some(path_resolved)`                             (line 108)
ConfigFileAfterRead(old, resolved) == Some(resolved)

\* The advanced section of the decoded file, `advanced` of line 190.
Declared == Unwrap(settings.v.advanced)

Init ==
    /\ pc = "from_args"
    /\ opts = Unset
    /\ locals = Unset
    /\ settings_advanced = Unset
    /\ path_resolved = Unset
    /\ settings = Unset
    /\ headers_vec = <<>> /\ rewrites_vec = <<>> /\ redirects_vec = <<>>
    /\ headers_entries = Unset /\ rewrites_entries = Unset /\ redirects_entries = Unset
    /\ i = 0
    /\ calls = {}
    /\ result = Unset

\* let opts = General::from_args(); let mut host = opts.host; ...  (60-93)
FromArgs ==
    /\ pc = "from_args"
    /\ \E o \in Invocations :
        /\ opts' = o
        /\ locals' = [f \in GeneralFields |-> o[f]]
    /\ settings_advanced' = None
    /\ pc' = "config_file"
    /\ UNCHANGED <<path_resolved, settings, headers_vec, rewrites_vec, redirects_vec,
                   headers_entries, rewrites_entries, redirects_entries, i, calls, result>>

\* if let Some(ref p) = opts.config_file { if p.is_file() { ... } } (97-98)
CheckConfigFile ==
    /\ pc = "config_file"
    /\ IF IsSome(opts.config_file)
       THEN /\ calls' = calls \cup {"is_file"}
            /\ pc' = IF is_file(Unwrap(opts.config_file)) THEN "canonicalize" ELSE "return"
       ELSE /\ calls' = calls
            /\ pc' = "return"
    /\ UNCHANGED <<opts, locals, settings_advanced, path_resolved, settings,
                   headers_vec, rewrites_vec, redirects_vec,
                   headers_entries, rewrites_entries, redirects_entries, i, result>>

\* p.canonicalize().with_context(..)?: the file system decides    (99-101)
Canonicalize ==
    /\ pc = "canonicalize"
    /\ calls' = calls \cup {"canonicalize"}
    /\ \/ /\ path_resolved' = Ok(CanonicalPath(Unwrap(opts.config_file)))
          /\ pc' = "read"
          /\ UNCHANGED result
       \/ /\ path_resolved' = [tag |-> "Err"]
          /\ result' = Err(Context("error resolving toml config file path", ""))
          /\ pc' = "done"
    /\ UNCHANGED <<opts, locals, settings_advanced, settings,
                   headers_vec, rewrites_vec, redirects_vec,
                   headers_entries, rewrites_entries, redirects_entries, i>>

\* file::Settings::read(&path_resolved).with_context(..)?;
\* config_file = Some(path_resolved)                              (103-108)
ReadFile ==
    /\ pc = "read"
    /\ calls' = calls \cup {"read"}
    /\ \/ /\ \E s \in FileSettings : settings' = Ok(s)
          /\ locals' = [locals EXCEPT
                          !.config_file = ConfigFileAfterRead(@, path_resolved.v)]
          /\ pc' = "general"
          /\ UNCHANGED result
       \/ /\ settings' = [tag |-> "Err"]
          /\ result' = Err(Context("can not read toml config file because has invalid or unsupported format/options", ""))
          /\ pc' = "done"
          /\ UNCHANGED locals
    /\ UNCHANGED <<opts, settings_advanced, path_resolved,
                   headers_vec, rewrites_vec, redirects_vec,
                   headers_entries, rewrites_entries, redirects_entries, i>>

\* File-based "general" options                                  (111-187)
General ==
    /\ pc = "general"
    /\ locals' = IF IsSome(settings.v.general)
                 THEN MergeGeneral(locals, Unwrap(settings.v.general))
                 ELSE locals
    /\ pc' = "advanced"
    /\ UNCHANGED <<opts, settings_advanced, path_resolved, settings,
                   headers_vec, rewrites_vec, redirects_vec,
                   headers_entries, rewrites_entries, redirects_entries, i, calls, result>>

\* if let Some(advanced) = settings.advanced                         (190)
Advanced ==
    /\ pc = "advanced"
    /\ pc' = IF IsSome(settings.v.advanced) THEN "headers" ELSE "return"
    /\ UNCHANGED <<opts, locals, settings_advanced, path_resolved, settings,
                   headers_vec, rewrites_vec, redirects_vec,
                   headers_entries, rewrites_entries, redirects_entries, i, calls, result>>

\* match advanced.headers { Some(..) => { Vec::new() .. }, _ => None } (192-194, 214)
HeadersMatch ==
    /\ pc = "headers"
    /\ IF IsSome(Declared.headers)
       THEN /\ headers_vec' = <<>> /\ i' = 1 /\ pc' = "headers_for"
            /\ UNCHANGED headers_entries
       ELSE /\ headers_entries' = None /\ pc' = "rewrites"
            /\ UNCHANGED <<headers_vec, i>>
    /\ UNCHANGED <<opts, locals, settings_advanced, path_resolved, settings,
                   rewrites_vec, redirects_vec, rewrites_entries, redirects_entries,
                   calls, result>>

\* for headers_entry in headers_entries.iter() { .. }; Some(headers_vec) (197-212)
HeadersFor ==
    /\ pc = "headers_for"
    /\ LET entries == Unwrap(Declared.headers) IN
       IF i > Len(entries)
       THEN /\ headers_entries' = SomeVec(headers_vec)
            /\ pc' = "rewrites"
            /\ UNCHANGED <<headers_vec, i, calls, result>>
       ELSE LET r == CompileHeadersEntry(entries[i]) IN
            /\ calls' = calls \cup {"Glob::new"}
            /\ IF r.tag = "Err"
               THEN /\ result' = r /\ pc' = "done"
                    /\ UNCHANGED <<headers_vec, i>>
               ELSE /\ headers_vec' = Append(headers_vec, r.v) /\ i' = i + 1
                    /\ UNCHANGED <<pc, result>>
            /\ UNCHANGED headers_entries
    /\ UNCHANGED <<opts, locals, settings_advanced, path_resolved, settings,
                   rewrites_vec, redirects_vec, rewrites_entries, redirects_entries>>

\* match advanced.rewrites { .. }                            (218-220, 240)
RewritesMatch ==
    /\ pc = "rewrites"
    /\ IF IsSome(Declared.rewrites)
       THEN /\ rewrites_vec' = <<>> /\ i' = 1 /\ pc' = "rewrites_for"
            /\ UNCHANGED rewrites_entries
       ELSE /\ rewrites_entries' = None /\ pc' = "redirects"
            /\ UNCHANGED <<rewrites_vec, i>>
    /\ UNCHANGED <<opts, locals, settings_advanced, path_resolved, settings,
                   headers_vec, redirects_vec, headers_entries, redirects_entries,
                   calls, result>>

\* for rewrites_entry in rewrites_entries.iter() { .. }; Some(rewrites_vec) (223-238)
RewritesFor ==
    /\ pc = "rewrites_for"
    /\ LET entries == Unwrap(Declared.rewrites) IN
       IF i > Len(entries)
       THEN /\ rewrites_entries' = SomeVec(rewrites_vec)
            /\ pc' = "redirects"
            /\ UNCHANGED <<rewrites_vec, i, calls, result>>
       ELSE LET r == CompileRewritesEntry(entries[i]) IN
            /\ calls' = calls \cup {"Glob::new"}
            /\ IF r.tag = "Err"
               THEN /\ result' = r /\ pc' = "done"
                    /\ UNCHANGED <<rewrites_vec, i>>
               ELSE /\ rewrites_vec' = Append(rewrites_vec, r.v) /\ i' = i + 1
                    /\ UNCHANGED <<pc, result>>
            /\ UNCHANGED rewrites_entries
    /\ UNCHANGED <<opts, locals, settings_advanced, path_resolved, settings,
                   headers_vec, redirects_vec, headers_entries, redirects_entries>>

\* match advanced.redirects { .. }                           (244-246, 270)
RedirectsMatch ==
    /\ pc = "redirects"
    /\ IF IsSome(Declared.redirects)
       THEN /\ redirects_vec' = <<>> /\ i' = 1 /\ pc' = "redirects_for"
            /\ UNCHANGED redirects_entries
       ELSE /\ redirects_entries' = None /\ pc' = "assemble"
            /\ UNCHANGED <<redirects_vec, i>>
    /\ UNCHANGED <<opts, locals, settings_advanced, path_resolved, settings,
                   headers_vec, rewrites_vec, headers_entries, rewrites_entries,
                   calls, result>>

\* for redirects_entry in redirects_entries.iter() { .. }; Some(redirects_vec) (249-268)
RedirectsFor ==
    /\ pc = "redirects_for"
    /\ LET entries == Unwrap(Declared.redirects) IN
       IF i > Len(entries)
       THEN /\ redirects_entries' = SomeVec(redirects_vec)
            /\ pc' = "assemble"
            /\ UNCHANGED <<redirects_vec, i, calls, result>>
       ELSE LET r == CompileRedirectsEntry(entries[i]) IN
            /\ calls' = calls \cup
                 (IF GlobNew(entries[i].source).tag = "Err"
                  THEN {"Glob::new"} ELSE {"Glob::new", "StatusCode::from_u16"})
            /\ IF r.tag = "Err"
               THEN /\ result' = r /\ pc' = "done"
                    /\ UNCHANGED <<redirects_vec, i>>
               ELSE /\ redirects_vec' = Append(redirects_vec, r.v) /\ i' = i + 1
                    /\ UNCHANGED <<pc, result>>
            /\ UNCHANGED redirects_entries
    /\ UNCHANGED <<opts, locals, settings_advanced, path_resolved, settings,
                   headers_vec, rewrites_vec, headers_entries, rewrites_entries>>

\* settings_advanced = Some(Advanced { headers, rewrites, redirects }) (273-277)
Assemble ==
    /\ pc = "assemble"
    /\ settings_advanced' = Some([headers |-> headers_entries,
                                  rewrites |-> rewrites_entries,
                                  redirects |-> redirects_entries])
    /\ pc' = "return"
    /\ UNCHANGED <<opts, locals, path_resolved, settings,
                   headers_vec, rewrites_vec, redirects_vec,
                   headers_entries, rewrites_entries, redirects_entries, i, calls, result>>

\* Ok(Settings { general: General { host, .. }, advanced: settings_advanced }) (282-316)
Return ==
    /\ pc = "return"
    /\ result' = Ok([general |-> locals, advanced |-> settings_advanced])
    /\ pc' = "done"
    /\ UNCHANGED <<opts, locals, settings_advanced, path_resolved, settings,
                   headers_vec, rewrites_vec, redirects_vec,
                   headers_entries, rewrites_entries, redirects_entries, i, calls>>

Next ==
    \/ FromArgs
    \/ CheckConfigFile
    \/ Canonicalize
    \/ ReadFile
    \/ General
    \/ Advanced
    \/ HeadersMatch
    \/ HeadersFor
    \/ RewritesMatch
    \/ RewritesFor
    \/ RedirectsMatch
    \/ RedirectsFor
    \/ Assemble
    \/ Return

Spec == Init /\ [][Next]_vars

\* -------------------------------------------------------------- properties

Done == pc = "done"
Returned == pc = "done" /\ result.tag = "Ok"
Failed == pc = "done" /\ result.tag = "Err"
FileRead == settings.tag = "Ok"

Kinds == {"headers", "rewrites", "redirects"}

\* The entries the file declares for a kind, in file order (none when the
\* file was not read, has no advanced section, or omits the kind).
DeclaredList(k) ==
    IF FileRead /\ IsSome(settings.v.advanced) /\ IsSome(Declared[k])
    THEN Unwrap(Declared[k]) ELSE <<>>

BadAt(k) == {j \in 1..Len(DeclaredList(k)) : DeclaredList(k)[j].source \in BadPatterns}

Min(S) == CHOOSE x \in S : \A y \in S : x <= y

GlobMsg ==
    [headers   |-> "can not compile glob pattern for header source",
     rewrites  |-> "can not compile glob pattern for rewrite source",
     redirects |-> "can not compile glob pattern for redirect source"]
StatusMsg == "invalid redirect status code"
PathMsg == "error resolving toml config file path"
ReadMsg == "can not read toml config file because has invalid or unsupported format/options"

\* The value the file's general section gives field f, if any.
FileGives(f) ==
    IF FileRead /\ IsSome(settings.v.general) /\ f \in FileFields
    THEN Unwrap(settings.v.general)[f] ELSE None

LevelText ==
    [Error |-> "error", Warn |-> "warn", Info |-> "info",
     Debug |-> "debug", Trace |-> "trace"]

\* What override-if-present gives field f: the file's value when the file
\* gives one (a level as its lowercase name), else the invocation's value.
Overridden(f) ==
    IF IsSome(FileGives(f))
    THEN IF f = "log_level" THEN LevelText[Unwrap(FileGives(f))]
         ELSE IF f \in {"http2_tls_cert", "http2_tls_key", "fd", "page_fallback"}
         THEN FileGives(f)
         ELSE Unwrap(FileGives(f))
    ELSE opts[f]

\* C1 (as amended): when a config file is read, every field of the returned
\* general options other than config_file equals the file's value if the
\* file's general section gives one (log_level as the lowercase name of the
\* file's level), whatever the invocation value, and equals the invocation
\* value if the section omits the field or is absent.
C1_OverrideIfPresent ==
    (Returned /\ FileRead) =>
        \A f \in GeneralFields \ {"config_file"} : result.v.general[f] = Overridden(f)

\* C1 (as stated): the same for every field of the returned general options,
\* config_file included.
C1_AsStated ==
    (Returned /\ FileRead) =>
        \A f \in GeneralFields : result.v.general[f] = Overridden(f)

C1_Witness ==
    /\ Returned /\ FileRead
    /\ opts.port = 8080 /\ FileGives("port") = Some(9090)
    /\ result.v.general.port = 9090
    /\ FileGives("host") = None /\ result.v.general.host = "127.0.0.1"

\* C2: when a config-file path is supplied that is not an existing regular
\* file, Settings::get never canonicalizes, decodes or compiles anything,
\* never fails, and returns the invocation's general options with no
\* advanced options.
C2_NotAFileIsInvocationOnly ==
    (pc /= "from_args" /\ IsSome(opts.config_file)
        /\ PathKind[Unwrap(opts.config_file)] /= "file") =>
        /\ calls \subseteq {"is_file"}
        /\ result.tag /= "Err"
        /\ Done => result = Ok([general |-> opts, advanced |-> None])

C2_Witness ==
    /\ Done /\ opts.config_file = Some("missing.toml")
    /\ opts.port = 8080
    /\ result = Ok([general |-> opts, advanced |-> None])

\* The redirect entry the loop stopped at with a status error.
StatusFailed == Failed /\ result.context.msg = StatusMsg

RuleOf(k, e) ==
    CASE k = "headers"   -> [source |-> [matcher |-> e.source], headers |-> e.headers]
      [] k = "rewrites"  -> [source |-> [matcher |-> e.source],
                             destination |-> e.destination]
      [] k = "redirects" -> [source |-> [matcher |-> e.source],
                             destination |-> e.destination,
                             kind |-> [code |-> e.kind]]

SomeStepFails ==
    \/ path_resolved.tag = "Err"
    \/ settings.tag = "Err"
    \/ \E k \in Kinds : BadAt(k) /= {}
    \/ \E j \in 1..Len(DeclaredList("redirects")) :
          LET code == DeclaredList("redirects")[j].kind % 65536 IN
          code < 100 \/ code > 999

\* C7: resolution is all-or-nothing: nothing is returned before the end; the
\* value returned is an error carrying a context that names the stage, and no
\* settings, exactly when a step failed, and settings otherwise.
C7_AllOrNothing ==
    /\ ~Done => result = Unset
    /\ Done =>
        /\ result.tag \in {"Ok", "Err"}
        /\ result.tag = "Err" <=> SomeStepFails
        /\ result.tag = "Err" =>
              /\ DOMAIN result = {"tag", "context"}
              /\ result.context.msg \in
                    {PathMsg, ReadMsg, StatusMsg, GlobMsg.headers,
                     GlobMsg.rewrites, GlobMsg.redirects}
        /\ result.tag = "Ok" => DOMAIN result = {"tag", "v"}

C7_Witness ==
    /\ Failed /\ result.context.msg = StatusMsg
    /\ locals.port = 9090 /\ opts.port = 8080
    /\ Len(headers_vec) = 1 /\ headers_entries = Some(headers_vec)
    /\ Len(redirects_vec) = 1

\* C8 (as amended): the returned advanced options are absent when the file
\* has no advanced section; when it has one, for each kind the list is absent
\* when the section omits the kind, and present with one rule per declared
\* entry when the section gives the kind: present and empty for an empty list.
C8_AbsentIffOmitted ==
    (Returned /\ FileRead) =>
        IF IsSome(settings.v.advanced)
        THEN /\ IsSome(result.v.advanced)
             /\ \A k \in Kinds :
                  LET compiled == Unwrap(result.v.advanced)[k] IN
                  IF IsSome(Declared[k])
                  THEN /\ IsSome(compiled)
                       /\ Len(Unwrap(compiled)) = Len(Unwrap(Declared[k]))
                  ELSE compiled = None
        ELSE result.v.advanced = None

\* C8 (as stated): ... for each kind the list is absent when the file
\* declares zero entries of the kind (the kind omitted, or given as an empty
\* list), and present with one rule per declared entry otherwise.
C8_AsStated ==
    (Returned /\ FileRead) =>
        IF IsSome(settings.v.advanced)
        THEN /\ IsSome(result.v.advanced)
             /\ \A k \in Kinds :
                  LET compiled == Unwrap(result.v.advanced)[k] IN
                  IF Len(DeclaredList(k)) > 0
                  THEN /\ IsSome(compiled)
                       /\ Len(Unwrap(compiled)) = Len(DeclaredList(k))
                  ELSE compiled = None
        ELSE result.v.advanced = None

C8_Witness ==
    /\ Returned /\ FileRead /\ IsSome(settings.v.advanced)
    /\ Declared.headers = Some(<<>>) /\ Declared.rewrites = None
    /\ Len(DeclaredList("redirects")) = 2
    /\ Unwrap(result.v.advanced).headers = Some(<<>>)
    /\ Unwrap(result.v.advanced).rewrites = None
    /\ Len(Unwrap(Unwrap(result.v.advanced).redirects)) = 2

\* The redirect entries at fault: a malformed glob, or a status the code
\* rejects.
RedirectFaultAt ==
    {j \in 1..Len(DeclaredList("redirects")) :
        LET e == DeclaredList("redirects")[j] IN
        \/ e.source \in BadPatterns
        \/ e.kind % 65536 < 100 \/ e.kind % 65536 > 999}

\* The error of the first fault in the order: canonicalization, decoding,
\* header globs, rewrite globs, redirect entries (glob before status).
FirstFault ==
    IF path_resolved.tag = "Err" THEN Context(PathMsg, "")
    ELSE IF settings.tag = "Err" THEN Context(ReadMsg, "")
    ELSE IF BadAt("headers") /= {}
    THEN Context(GlobMsg.headers, DeclaredList("headers")[Min(BadAt("headers"))].source)
    ELSE IF BadAt("rewrites") /= {}
    THEN Context(GlobMsg.rewrites, DeclaredList("rewrites")[Min(BadAt("rewrites"))].source)
    ELSE LET e == DeclaredList("redirects")[Min(RedirectFaultAt)] IN
         IF e.source \in BadPatterns
         THEN Context(GlobMsg.redirects, e.source)
         ELSE Context(StatusMsg, ToString(e.kind % 65536))

\* C9: the error returned is that of the first fault in the fixed order
\* canonicalization, decoding, header globs, rewrite globs, redirect entries
\* in declaration order with each entry's glob before its status; no later
\* step is attempted after a failed one.
C9_FirstFaultReported ==
    Failed =>
        /\ result.context = FirstFault
        /\ path_resolved.tag = "Err" => settings = Unset /\ "read" \notin calls
        /\ settings.tag = "Err" => "Glob::new" \notin calls

C9_Witness ==
    /\ StatusFailed /\ i = 1
    /\ BadAt("headers") = {} /\ Len(DeclaredList("headers")) = 1
    /\ Len(DeclaredList("redirects")) = 2
    /\ DeclaredList("redirects")[2].source \in BadPatterns

\* C10: the config_file of the returned general options is the invocation's
\* value when no file was read (no path, or a path that is no regular file),
\* and the canonicalized form of the supplied path when the file was read,
\* whatever the file declares.
C10_ConfigFileFromPathOnly ==
    Returned =>
        result.v.general.config_file =
            IF IsSome(opts.config_file) /\ PathKind[Unwrap(opts.config_file)] = "file"
            THEN Some(CASE Unwrap(opts.config_file) = "sws.toml" -> "/srv/www/sws.toml")
            ELSE opts.config_file

C10_Witness ==
    /\ Returned /\ FileRead
    /\ settings.v.general = Some(GeneralAll(1))
    /\ opts.config_file = Some("sws.toml")
    /\ result.v.general.config_file = Some("/srv/www/sws.toml")

====
